---- MODULE Spec2Model ----
(***************************************************************************)
(* Model of the sentence deduplication and deterministic reshuffling       *)
(* engine of roro_module (RoRoShufflerDatabase, shuffler_db.py).           *)
(*                                                                         *)
(* A string is a sequence of one-character strings.  The character         *)
(* classes are Python's str.isalpha / str.isspace / str.lower restricted   *)
(* to the characters the model uses.                                       *)
(***************************************************************************)
EXTENDS Integers, Sequences, FiniteSets, TLC

----------------------------------------------------------------------------
(* Characters *)

\* "s-comma" and "a-breve" stand for the Romanian letters of "citeste" and
\* "continua" written with diacritics
LowerLetters == {"a", "b", "c", "d", "e", "f", "g", "h", "i", "j",
                 "n", "o", "s", "t", "u", "s-comma", "a-breve"}

UpperLetters == {"A", "B", "C", "D", "E", "F", "G", "H", "I"}

SpaceChars == {" ", "\t"}

OtherChars == {"1", "2", "3", "4", "5", "6", "7", "8", "."}

\* str.isalpha on one character
IsAlpha(ch) == ch \in LowerLetters \cup UpperLetters

\* str.isspace on one character (the set str.strip, str.split and \s share)
IsSpace(ch) == ch \in SpaceChars

\* str.lower on one character
LowerChar(ch) ==
    CASE ch = "A" -> "a" [] ch = "B" -> "b" [] ch = "C" -> "c"
      [] ch = "D" -> "d" [] ch = "E" -> "e" [] ch = "F" -> "f"
      [] ch = "G" -> "g" [] ch = "H" -> "h" [] ch = "I" -> "i"
      [] OTHER -> ch

----------------------------------------------------------------------------
(* String helpers *)

RECURSIVE LStrip(_)
LStrip(s) ==
    IF s = <<>> THEN <<>>
    ELSE IF IsSpace(Head(s)) THEN LStrip(Tail(s)) ELSE s

RECURSIVE RStrip(_)
RStrip(s) ==
    IF s = <<>> THEN <<>>
    ELSE IF IsSpace(s[Len(s)]) THEN RStrip(SubSeq(s, 1, Len(s) - 1)) ELSE s

\* str.strip()
Strip(s) == RStrip(LStrip(s))

\* str.lower()
Lower(s) == [i \in 1..Len(s) |-> LowerChar(s[i])]

\* re.sub(r"\s+", " ", s): every maximal run of whitespace becomes one space
RECURSIVE CollapseWs(_)
CollapseWs(s) ==
    IF s = <<>> THEN <<>>
    ELSE IF IsSpace(Head(s))
         THEN <<" ">> \o CollapseWs(LStrip(s))
         ELSE <<Head(s)>> \o CollapseWs(Tail(s))

\* the first whitespace-delimited token of a string that starts with a
\* non-space character
RECURSIVE FirstToken(_)
FirstToken(s) ==
    IF s = <<>> \/ IsSpace(Head(s)) THEN <<>>
    ELSE <<Head(s)>> \o FirstToken(Tail(s))

\* str.split(): the whitespace-delimited tokens, none of them empty
RECURSIVE Split(_)
Split(s) ==
    LET t == LStrip(s)
    IN  IF t = <<>> THEN <<>>
        ELSE LET tok == FirstToken(t)
             IN  <<tok>> \o Split(SubSeq(t, Len(tok) + 1, Len(t)))

\* any(ch.isalpha() for ch in tok)
HasAlpha(tok) == \E i \in 1..Len(tok) : IsAlpha(tok[i])

\* sum(ch.isalpha() for ch in s)
CountLetters(s) == Cardinality({i \in 1..Len(s) : IsAlpha(s[i])})

\* " ".join(parts)
RECURSIVE Join(_)
Join(parts) ==
    IF parts = <<>> THEN <<>>
    ELSE IF Len(parts) = 1 THEN parts[1]
    ELSE parts[1] \o <<" ">> \o Join(Tail(parts))

----------------------------------------------------------------------------
(* Normalisation, word count, hashing *)

\* _norm_sent
NormSent(s) == CollapseWs(Lower(Strip(s)))

\* _word_count
WordCount(s) ==
    LET toks == Split(s)
    IN  Cardinality({i \in 1..Len(toks) : HasAlpha(toks[i])})

\* the byte value the encoding of a character contributes to a digest
CharCode(ch) ==
    CASE ch = "a" -> 1 [] ch = "b" -> 2 [] ch = "c" -> 3 [] ch = "d" -> 4
      [] ch = "e" -> 5 [] ch = "f" -> 6 [] ch = "g" -> 7 [] ch = "h" -> 8
      [] ch = "i" -> 9 [] ch = "j" -> 10 [] ch = "n" -> 11 [] ch = "o" -> 12
      [] ch = "s" -> 13 [] ch = "t" -> 14 [] ch = "u" -> 15
      [] ch = "s-comma" -> 16 [] ch = "a-breve" -> 17
      [] ch = "A" -> 21 [] ch = "B" -> 22 [] ch = "C" -> 23 [] ch = "D" -> 24
      [] ch = "E" -> 25 [] ch = "F" -> 26 [] ch = "G" -> 27 [] ch = "H" -> 28
      [] ch = "I" -> 29
      [] ch = " " -> 30 [] ch = "\t" -> 31
      [] ch = "1" -> 41 [] ch = "2" -> 42 [] ch = "3" -> 43 [] ch = "4" -> 44
      [] ch = "5" -> 45 [] ch = "6" -> 46 [] ch = "7" -> 47 [] ch = "8" -> 48
      [] ch = "." -> 49

\* a digest of a string: a polynomial hash, which stands for blake2b and is
\* free of collisions on the strings of the model (HashIsInjective)
RECURSIVE Digest(_, _)
Digest(s, acc) ==
    IF s = <<>> THEN acc
    ELSE Digest(Tail(s), (acc * 53 + CharCode(Head(s))) % 10007)

\* a plausible slip: a digest so short that distinct sentences collide
SentHashWeak(s) == Len(s) % 4

\* _sent_hash
SentHash(s) == Digest(s, 7)

----------------------------------------------------------------------------
(* Quality filter *)

MinLength == 10

MinLetters == 7

MinWords == 2

\* bad_exact of _is_good_sentence
BadExact ==
    { <<"c", "i", "t", "e", "s-comma", "t", "e">>,
      <<"c", "i", "t", "e", "s", "t", "e">>,
      <<"c", "o", "n", "t", "i", "n", "u", "a">>,
      <<"c", "o", "n", "t", "i", "n", "u", "a-breve">> }

Verdict(ok, reason) == [ok |-> ok, reason |-> reason]

\* a plausible slip: the letter count is checked before the length
IsGoodSentenceLettersFirst(s0) ==
    LET s == Strip(s0)
        letters == CountLetters(s)
        toks == Split(s)
        words == Cardinality({i \in 1..Len(toks) : HasAlpha(toks[i])})
        len1 == IF Len(s) > 1 THEN Len(s) ELSE 1
    IN  IF letters < MinLetters THEN Verdict(FALSE, "too_few_letters")
        ELSE IF Len(s) < MinLength THEN Verdict(FALSE, "too_short")
        ELSE IF words < MinWords THEN Verdict(FALSE, "too_few_words")
        ELSE IF 2 * letters < len1 THEN Verdict(FALSE, "mostly_non_letters")
        ELSE IF NormSent(s) \in BadExact THEN Verdict(FALSE, "boilerplate")
        ELSE Verdict(TRUE, "none")

\* a plausible slip: the boilerplate words are looked up before the other
\* checks
IsGoodSentenceBoilerFirst(s0) ==
    LET s == Strip(s0)
        letters == CountLetters(s)
        toks == Split(s)
        words == Cardinality({i \in 1..Len(toks) : HasAlpha(toks[i])})
        len1 == IF Len(s) > 1 THEN Len(s) ELSE 1
    IN  IF NormSent(s) \in BadExact THEN Verdict(FALSE, "boilerplate")
        ELSE IF Len(s) < MinLength THEN Verdict(FALSE, "too_short")
        ELSE IF letters < MinLetters THEN Verdict(FALSE, "too_few_letters")
        ELSE IF words < MinWords THEN Verdict(FALSE, "too_few_words")
        ELSE IF 2 * letters < len1 THEN Verdict(FALSE, "mostly_non_letters")
        ELSE Verdict(TRUE, "none")

\* _is_good_sentence: (ok, reason), reason "none" for None.
\* letters / max(len(s), 1) < 0.50 is 2 * letters < max(len(s), 1).
IsGoodSentence(s0) ==
    LET s == Strip(s0)
        letters == CountLetters(s)
        toks == Split(s)
        words == Cardinality({i \in 1..Len(toks) : HasAlpha(toks[i])})
        len1 == IF Len(s) > 1 THEN Len(s) ELSE 1
    IN  IF Len(s) < MinLength THEN Verdict(FALSE, "too_short")
        ELSE IF letters < MinLetters THEN Verdict(FALSE, "too_few_letters")
        ELSE IF words < MinWords THEN Verdict(FALSE, "too_few_words")
        ELSE IF 2 * letters < len1 THEN Verdict(FALSE, "mostly_non_letters")
        ELSE IF NormSent(s) \in BadExact THEN Verdict(FALSE, "boilerplate")
        ELSE Verdict(TRUE, "none")

----------------------------------------------------------------------------
(* The corpus the runs draw their entries from *)

\* "Abc defghi": accepted, 2 words
SentA == <<"A", "b", "c", " ", "d", "e", "f", "g", "h", "i">>

\* " abc \t DEFGHI": the same sentence as SentA after normalisation
SentA2 == <<" ", "a", "b", "c", " ", "\t", "D", "E", "F", "G", "H", "I">>

\* "bcd efg hij": accepted, 3 words
SentB == <<"b", "c", "d", " ", "e", "f", "g", " ", "h", "i", "j">>

\* "cc dd ee ff 12": accepted, 4 words
SentC == <<"c", "c", " ", "d", "d", " ", "e", "e", " ", "f", "f", " ",
           "1", "2">>

\* "abc 12345": 9 characters, 3 letters
SentShort == <<"a", "b", "c", " ", "1", "2", "3", "4", "5">>

\* "ab 1234567.": 11 characters, 2 letters
SentFewLetters == <<"a", "b", " ", "1", "2", "3", "4", "5", "6", "7", ".">>

\* "  ": nothing but whitespace
SentBlank == <<" ", " ">>

PathA == <<"a", "f.json">>

PathB == <<"b", "f.json">>

Entry(rel_path, sents) == [rel_path |-> rel_path, sents |-> sents]

\* the entries parser.get_flat() may return: the relative path of the file
\* and the sentences the segmenter finds in its text
EntryPool ==
    { Entry(PathA, <<SentA, SentB>>),
      Entry(PathA, <<SentA2, SentC>>),
      Entry(PathB, <<SentShort, SentA, SentBlank>>),
      Entry(PathB, <<SentFewLetters>>) }

\* entries among which some have no text, or an empty one
MalformedPool ==
    { Entry(PathA, <<SentA, SentB>>),
      Entry(PathA, <<>>),
      Entry(PathB, <<SentShort, SentA, SentBlank>>),
      Entry(PathB, <<>>) }

----------------------------------------------------------------------------
(* Configuration and grouping *)

\* the calls of run() the model follows: a run, and a second run on what the
\* first left behind (every property of runs relates a run to the one
\* before it)
Runs == {1, 2}

NumEntries == 3

Config(seed, batch_size, commit_every, target) ==
    [seed |-> seed, batch_size |-> batch_size, commit_every |-> commit_every,
     target_word_count |-> target, level |-> -1]

\* the keyword arguments of __init__ the runs are made with
Configs == {Config(0, 1, 1, 3), Config(1, 1, 1, 3), Config(0, 2, 2, 5)}

Min(a, b) == IF a < b THEN a ELSE b

\* _subpath_from_rel_path; rel_path is given as Path(rel_path).parts
SubpathFromRelPath(parts, level) ==
    IF parts = <<>> THEN <<"(root)">>
    ELSE LET folders == IF Len(parts) > 1
                        THEN SubSeq(parts, 1, Len(parts) - 1)
                        ELSE <<parts[1]>>
         IN  IF level = 0 THEN SubSeq(folders, 1, Min(1, Len(folders)))
             ELSE IF level = -1 THEN folders
             ELSE IF level > 0
                  THEN SubSeq(folders, 1, Min(level + 1, Len(folders)))
             ELSE <<"(root)">>

\* the order of path components under string comparison
PartRank(p) ==
    CASE p = "(root)" -> 0 [] p = "a" -> 1 [] p = "b" -> 2 [] OTHER -> 3

\* Path.__lt__: component-wise comparison
RECURSIVE PathLess(_, _)
PathLess(p, q) ==
    IF q = <<>> THEN FALSE
    ELSE IF p = <<>> THEN TRUE
    ELSE IF PartRank(Head(p)) # PartRank(Head(q))
         THEN PartRank(Head(p)) < PartRank(Head(q))
    ELSE PathLess(Tail(p), Tail(q))

\* sorted(folder_to_idxs.keys())
RECURSIVE SortedPaths(_)
SortedPaths(S) ==
    IF S = {} THEN <<>>
    ELSE LET m == CHOOSE x \in S : \A y \in S \ {x} : PathLess(x, y)
         IN  <<m>> \o SortedPaths(S \ {m})

\* keyword arguments the specification calls invalid: a level below -1
InvalidConfigs == {[Config(0, 1, 1, 3) EXCEPT !.level = 0 - 2]}

\* every folder an entry of the pools can be routed to
AllFolders ==
    {SubpathFromRelPath(e.rel_path, c.level) :
        e \in EntryPool \cup MalformedPool, c \in Configs \cup InvalidConfigs}

\* the orderings of a finite set
Orderings(S) ==
    {f \in [1..Cardinality(S) -> S] : \A x \in S : \E i \in DOMAIN f : f[i] = x}

\* the same entries with two neighbours exchanged, or as they are: every
\* order is a chain of such exchanges
Reorderings(es) ==
    {es} \cup {[es EXCEPT ![k] = es[k + 1], ![k + 1] = es[k]] :
                  k \in 1..(Len(es) - 1)}

----------------------------------------------------------------------------
(* State *)

VARIABLES
    entries,            \* parser.get_flat() of the current run
    cfg,                \* the configuration of the current run
    run,                \* the number of the current run
    pc,                 \* the position of run()
    all_folders,        \* sorted(folder_to_idxs.keys())
    gi,                 \* the index in all_folders of the folder in work
    store,              \* the rows of table sents
    in_txn,             \* a transaction is open on the connection
    pending,            \* upserts of the open transaction
    start,              \* the entries of the folder already batched
    queue,              \* what _iter_sent_texts_batch still has to yield
    total_sents,
    unique_sents,
    processed_entries,
    rejected,           \* the list rejected of the folder in work
    parts,              \* the part files of the output directory
    top100_csv,         \* _top100_duplicates.csv of each folder
    rejected_csv,       \* _rejected_sentences.csv of each folder
    folder_stats,       \* the dictionary run() returns
    accepted,           \* history: the sentences of each folder the filter let pass
    stream,             \* history: the rows the ordered read returned
    docs,               \* history: the documents this run wrote, by folder
    prev,               \* history: the previous run, as it ended
    f_in,               \* the argument of a call of _is_good_sentence
    f_out,              \* what the call returned
    h_in,               \* the arguments of a helper called on its own
    h_out,              \* what each helper called on them returned
    rng,                \* the draws made from random.Random(seed)
    sql,                \* the statements the last step executed on the connection
    loop                \* the locals of _make_texts_close_to_target stepped through

vars == <<entries, cfg, run, pc, all_folders, gi, store, in_txn, pending,
          start, queue, total_sents, unique_sents, processed_entries,
          rejected, parts, top100_csv, rejected_csv, folder_stats,
          accepted, stream, docs, prev, f_in, f_out, h_in, h_out, rng, sql,
          loop>>

\* the helpers called on their own
helpers == <<h_in, h_out>>

\* what run() of RoRoShufflerDatabase never touches: the helpers called on
\* their own and the generator of the in-memory RoRoShuffler
probe == <<f_in, f_out, h_in, h_out, rng, loop>>

\* a plausible slip: the order key is salted with a per-process value (as
\* Python's built-in hash() is), not derived from digest and seed alone
SentRandKeySalted(h, seed) ==
    (((h + 1) * (2 * ((seed + run) % 2) + 3) * 37) % 10007) - 5003

\* a plausible slip: the order key is the position of insertion
SentRandKeyInsertion(h, seed) == total_sents

\* _sent_randkey: a keyed digest of h and the seed bytes, read as a signed
\* integer; one-to-one in h for each seed
SentRandKey(h, seed) == (((h + 1) * (2 * (seed % 2) + 3) * 37) % 10007) - 5003

----------------------------------------------------------------------------
(* Helpers of run() *)

Subpath(e) == SubpathFromRelPath(e.rel_path, cfg.level)

\* folder_to_idxs[g]: the indices of the entries routed to g, ascending
FolderIdxs(g) ==
    SelectSeq([i \in 1..Len(entries) |-> i], LAMBDA i : Subpath(entries[i]) = g)

CurFolder == all_folders[gi]

RECURSIVE Flatten(_)
Flatten(ss) == IF ss = <<>> THEN <<>> ELSE Head(ss) \o Flatten(Tail(ss))

\* _iter_sent_texts_batch: the sentences of the entries of a batch, in order
IterSentTextsBatch(batch_entries) ==
    Flatten([i \in 1..Len(batch_entries) |-> batch_entries[i].sents])

Row(subpath, h, r, text, cnt) ==
    [subpath |-> subpath, h |-> h, r |-> r, text |-> text, cnt |-> cnt]

\* SELECT ... FROM sents WHERE subpath = ?
Rows(st, g) == {row \in st : row.subpath = g}

\* a plausible slip: the partition of the folder is not deleted
DeleteFolderNothing(st, g) == st

\* a plausible slip: DELETE FROM sents without the WHERE clause
DeleteFolderAll(st, g) == {}

\* DELETE FROM sents WHERE subpath = ?
DeleteFolder(st, g) == {row \in st : row.subpath # g}

\* a plausible slip: a conflicting insert also replaces the stored text
UpsertReplaceText(st, g, h, order, s) ==
    IF \E row \in st : row.subpath = g /\ row.h = h
    THEN {IF row.subpath = g /\ row.h = h
          THEN [row EXCEPT !.cnt = @ + 1, !.text = s] ELSE row : row \in st}
    ELSE st \cup {Row(g, h, order, s, 1)}

\* a plausible slip: the primary key is the digest alone
UpsertKeyH(st, g, h, order, s) ==
    IF \E row \in st : row.h = h
    THEN {IF row.h = h THEN [row EXCEPT !.cnt = @ + 1] ELSE row : row \in st}
    ELSE st \cup {Row(g, h, order, s, 1)}

\* INSERT INTO sents ... VALUES(?, ?, ?, ?, 1)
\* ON CONFLICT(subpath, h) DO UPDATE SET cnt = cnt + 1
Upsert(st, g, h, order, s) ==
    IF \E row \in st : row.subpath = g /\ row.h = h
    THEN {IF row.subpath = g /\ row.h = h
          THEN [row EXCEPT !.cnt = @ + 1] ELSE row : row \in st}
    ELSE st \cup {Row(g, h, order, s, 1)}

\* a plausible slip: the read is not restricted to the folder
OrderedReadsAllFolders(st, g) ==
    {f \in Orderings(st) : \A i, j \in DOMAIN f : i < j => f[i].r <= f[j].r}

\* a plausible slip: the rows come back in descending order of r
OrderedReadsDescending(st, g) ==
    {f \in Orderings(Rows(st, g)) :
        \A i, j \in DOMAIN f : i < j => f[i].r >= f[j].r}

\* SELECT text FROM sents WHERE subpath = ? ORDER BY r: the results the
\* statement may return (rows of equal r come in either order)
OrderedReads(st, g) ==
    {f \in Orderings(Rows(st, g)) :
        \A i, j \in DOMAIN f : i < j => f[i].r <= f[j].r}

\* every way to pick one element of cand[k] for each k in i..j, in order
RECURSIVE Picks(_, _, _)
Picks(cand, i, j) ==
    IF i > j THEN {<<>>}
    ELSE IF i = j THEN {<<x>> : x \in cand[i]}
    ELSE LET m == (i + j) \div 2
         IN  {a \o b : a \in Picks(cand, i, m), b \in Picks(cand, m + 1, j)}

\* ORDER BY cnt DESC LIMIT k on the rows S: a row stands after the rows of
\* greater cnt and among those of equal cnt, in any order
TopReads(S, k) ==
    LET n == Cardinality(S)
        above == [row \in S |-> Cardinality({o \in S : o.cnt > row.cnt})]
        same == [row \in S |-> Cardinality({o \in S : o.cnt = row.cnt})]
        cand == [i \in 1..n |->
                   {row \in S : above[row] < i /\ i <= above[row] + same[row]}]
        sorted == {f \in Picks(cand, 1, n) :
                      \A i, j \in 1..n : i # j => f[i] # f[j]}
    IN  {SubSeq(f, 1, Min(k, n)) : f \in sorted}

\* a plausible slip: the query is not restricted to the folder
Top100ReadsAllFolders(st, g) == TopReads(st, 100)

\* SELECT cnt, text ... WHERE subpath = ? ORDER BY cnt DESC LIMIT 100: the
\* results the statement may return
Top100Reads(st, g) == TopReads(Rows(st, g), 100)

\* lines 165-170: the rows of _top100_duplicates.csv under the header
Top100Csv(top100) ==
    [i \in 1..Len(top100) |-> <<i, top100[i].cnt, top100[i].text>>]

\* a plausible slip: flush_text is not called once more after the loop
RECURSIVE PackFromNoTrailing(_, _, _, _)
PackFromNoTrailing(texts, target, cur_parts, cur_words) ==
    IF texts = <<>> THEN <<>>
    ELSE LET text == Head(texts)
             parts2 == Append(cur_parts, Strip(text))
             words2 == cur_words + WordCount(text)
         IN  IF words2 >= target
             THEN <<parts2>> \o PackFromNoTrailing(Tail(texts), target, <<>>, 0)
             ELSE PackFromNoTrailing(Tail(texts), target, parts2, words2)

\* the loop of lines 210-217 with flush_text: the lists cur_parts flushed
RECURSIVE PackFrom(_, _, _, _)
PackFrom(texts, target, cur_parts, cur_words) ==
    IF texts = <<>>
    THEN IF cur_parts = <<>> THEN <<>> ELSE <<cur_parts>>
    ELSE LET text == Head(texts)
             parts2 == Append(cur_parts, Strip(text))
             words2 == cur_words + WordCount(text)
         IN  IF words2 >= target
             THEN <<parts2>> \o PackFrom(Tail(texts), target, <<>>, 0)
             ELSE PackFrom(Tail(texts), target, parts2, words2)

DigitChar(d) ==
    CASE d = 0 -> "0" [] d = 1 -> "1" [] d = 2 -> "2" [] d = 3 -> "3"
      [] d = 4 -> "4" [] d = 5 -> "5" [] d = 6 -> "6" [] d = 7 -> "7"
      [] d = 8 -> "8" [] d = 9 -> "9"

RECURSIVE Decimal(_)
Decimal(n) ==
    IF n < 10 THEN <<DigitChar(n)>>
    ELSE Decimal(n \div 10) \o <<DigitChar(n % 10)>>

\* a plausible slip: the index is not padded with zeros
PartNameUnpadded(idx) == <<"part_">> \o Decimal(idx)

\* f"part_{part_idx:03d}"
PartName(idx) ==
    LET d == Decimal(idx)
    IN  <<"part_">> \o [i \in 1..(IF Len(d) < 3 THEN 3 - Len(d) ELSE 0) |-> "0"] \o d

\* the payload flush_text writes for the idx-th list of parts
Document(g, idx, cur_parts) ==
    [subpath |-> g, idx |-> idx, title |-> PartName(idx),
     content |-> Strip(Join(cur_parts))]

NoCsv == [written |-> FALSE, rows |-> <<>>]

NoStats ==
    [present |-> FALSE, input_sentences |-> 0, unique_sentences |-> 0,
     written |-> 0]

\* no helper is being called on its own
NoCall == [kind |-> "none"]

NotCalled == [called |-> FALSE, value |-> <<>>]

Returned(v) == [called |-> TRUE, value |-> v]

\* no helper has returned
NoResults ==
    [make_texts |-> NotCalled, flush_loop |-> NotCalled,
     subpath |-> NotCalled, top100 |-> NotCalled]

\* _make_texts_close_to_target is not being stepped through
NoLoop == [pc |-> "none"]

\* lines 74-81: the statements of the reset of a folder. The connection has
\* the default isolation level of sqlite3.connect, under which the module
\* opens a transaction before a DELETE when none is open; conn.commit()
\* ends it, conn.execute("BEGIN") opens the transaction of the upserts
ResetStatements == <<"BEGIN", "DELETE", "COMMIT", "BEGIN">>

\* lines 117-122
UpsertStatements == <<"UPSERT">>

\* a plausible slip: the transaction is not reopened after the commit
PeriodicCommitNoBegin == <<"COMMIT", "COUNT">>

\* lines 125-132: COMMIT, SELECT COUNT(*), BEGIN
PeriodicCommit == <<"COMMIT", "COUNT", "BEGIN">>

\* lines 136-141: COMMIT, SELECT COUNT(*)
FinalCommit == <<"COMMIT", "COUNT">>

\* a plausible slip: one upsert too many before the commit
CommitDueLate(n, commit_every) == n % (commit_every + 1) = 0

\* line 124: if total_sents % self.commit_every == 0
CommitDue(n, commit_every) == n % commit_every = 0

\* whether a transaction is open on the connection after the statements,
\* when it was (or was not) open before them
RECURSIVE TxnAfter(_, _)
TxnAfter(open, stmts) ==
    IF stmts = <<>> THEN open
    ELSE TxnAfter(IF Head(stmts) = "BEGIN" THEN TRUE
                  ELSE IF Head(stmts) = "COMMIT" THEN FALSE
                  ELSE open, Tail(stmts))

NoPrev ==
    [valid |-> FALSE, entries |-> <<>>, cfg |-> Config(0, 1, 1, 3),
     outcome |-> "none", store |-> {},
     docs |-> [g \in AllFolders |-> <<>>],
     stream |-> [g \in AllFolders |-> <<>>]]

----------------------------------------------------------------------------
(* run() *)

\* the locals of run() and the history of the run, before run() is entered
FreshRun ==
    /\ pc = "start"
    /\ all_folders = <<>>
    /\ gi = 0
    /\ in_txn = FALSE
    /\ pending = 0
    /\ start = 0
    /\ queue = <<>>
    /\ total_sents = 0
    /\ unique_sents = 0
    /\ processed_entries = 0
    /\ rejected = <<>>
    /\ folder_stats = [g \in AllFolders |-> NoStats]
    /\ accepted = [g \in AllFolders |-> <<>>]
    /\ stream = [g \in AllFolders |-> <<>>]
    /\ docs = [g \in AllFolders |-> <<>>]
    /\ sql = <<>>

\* a new output directory, a new database, the object constructed
Init ==
    /\ entries \in [1..NumEntries -> EntryPool]
    /\ cfg \in Configs
    /\ run = 1
    /\ store = {}
    /\ parts = {}
    /\ top100_csv = [g \in AllFolders |-> NoCsv]
    /\ rejected_csv = [g \in AllFolders |-> NoCsv]
    /\ prev = NoPrev
    /\ f_in = <<>>
    /\ f_out = Verdict(FALSE, "not called")
    /\ h_in = NoCall
    /\ h_out = NoResults
    /\ rng = 0
    /\ loop = NoLoop
    /\ FreshRun

\* lines 42-67: the entries are routed to folders, the database is opened
RunBegin ==
    /\ pc = "start"
    /\ all_folders' = SortedPaths({Subpath(entries[i]) : i \in 1..Len(entries)})
    /\ gi' = 1
    /\ pc' = IF Len(entries) = 0 THEN "close" ELSE "reset"
    /\ sql' = <<>>
    /\ UNCHANGED <<entries, cfg, run, store, in_txn, pending, start, queue,
                   total_sents, unique_sents, processed_entries, rejected,
                   parts, top100_csv, rejected_csv, folder_stats, accepted,
                   stream, docs, prev, probe>>

\* lines 69-87: the folder's rows are deleted and committed, the counters
\* are cleared, BEGIN
ResetGroup ==
    /\ pc = "reset"
    /\ store' = DeleteFolder(store, CurFolder)
    /\ sql' = ResetStatements
    /\ in_txn' = TxnAfter(in_txn, sql')
    /\ pending' = 0
    /\ start' = 0
    /\ queue' = <<>>
    /\ total_sents' = 0
    /\ unique_sents' = 0
    /\ processed_entries' = 0
    /\ rejected' = <<>>
    /\ pc' = "index"
    /\ UNCHANGED <<entries, cfg, run, all_folders, gi, parts, top100_csv,
                   rejected_csv, folder_stats, accepted, stream, docs, prev, probe>>

\* lines 88-96: the next batch of the folder's entries is handed to
\* _iter_sent_texts_batch
NextBatch ==
    /\ pc = "index"
    /\ queue = <<>>
    /\ start < Len(FolderIdxs(CurFolder))
    /\ LET idxs == FolderIdxs(CurFolder)
           last == Min(start + cfg.batch_size, Len(idxs))
           batch_entries == [k \in 1..(last - start) |-> entries[idxs[start + k]]]
       IN  /\ queue' = IterSentTextsBatch(batch_entries)
           /\ processed_entries' = processed_entries + Len(batch_entries)
    /\ start' = start + cfg.batch_size
    /\ sql' = <<>>
    /\ UNCHANGED <<entries, cfg, run, pc, all_folders, gi, store, in_txn,
                   pending, total_sents, unique_sents, rejected, parts,
                   top100_csv, rejected_csv, folder_stats, accepted, stream,
                   docs, prev, probe>>

\* lines 96-132: one sentence of the batch is stripped, filtered and upserted
ProcessSentence ==
    /\ pc = "index"
    /\ queue # <<>>
    /\ queue' = Tail(queue)
    /\ LET s == Strip(Head(queue))
           verdict == IsGoodSentence(s)
           key == NormSent(s)
           h == SentHash(key)
           order == SentRandKey(h, cfg.seed)
       IN  IF s = <<>>
           THEN /\ sql' = <<>>
                /\ UNCHANGED <<rejected, total_sents, store, pending,
                               unique_sents, accepted>>
           ELSE IF ~verdict.ok
           THEN /\ rejected' = Append(rejected, <<verdict.reason, s>>)
                /\ sql' = <<>>
                /\ UNCHANGED <<total_sents, store, pending, unique_sents,
                               accepted>>
           ELSE /\ total_sents' = total_sents + 1
                /\ accepted' = [accepted EXCEPT ![CurFolder] = Append(@, s)]
                /\ UNCHANGED rejected
                /\ IF key = <<>>
                   THEN /\ sql' = <<>>
                        /\ UNCHANGED <<store, pending, unique_sents>>
                   ELSE /\ store' = Upsert(store, CurFolder, h, order, s)
                        /\ IF CommitDue(total_sents', cfg.commit_every)
                           THEN /\ sql' = UpsertStatements \o PeriodicCommit
                                /\ pending' = 0
                                /\ unique_sents' =
                                       Cardinality(Rows(store', CurFolder))
                           ELSE /\ sql' = UpsertStatements
                                /\ pending' = pending + 1
                                /\ UNCHANGED unique_sents
    /\ in_txn' = TxnAfter(in_txn, sql')
    /\ UNCHANGED <<entries, cfg, run, pc, all_folders, gi, start,
                   processed_entries, parts, top100_csv, rejected_csv,
                   folder_stats, stream, docs, prev, probe>>

\* a plausible slip: the rows are not counted again after the last COMMIT
EndIndexNoCount ==
    /\ pc = "index"
    /\ queue = <<>>
    /\ start >= Len(FolderIdxs(CurFolder))
    /\ sql' = <<"COMMIT">>
    /\ in_txn' = TxnAfter(in_txn, sql')
    /\ pending' = 0
    /\ pc' = "top100"
    /\ UNCHANGED <<entries, cfg, run, all_folders, gi, store, start, queue,
                   total_sents, unique_sents, processed_entries, rejected,
                   parts, top100_csv, rejected_csv, folder_stats, accepted,
                   stream, docs, prev, probe>>

\* lines 136-143: the last COMMIT of the folder and the count of its rows
EndIndex ==
    /\ pc = "index"
    /\ queue = <<>>
    /\ start >= Len(FolderIdxs(CurFolder))
    /\ sql' = FinalCommit
    /\ in_txn' = TxnAfter(in_txn, sql')
    /\ pending' = 0
    /\ unique_sents' = Cardinality(Rows(store, CurFolder))
    /\ pc' = "top100"
    /\ UNCHANGED <<entries, cfg, run, all_folders, gi, store, start, queue,
                   total_sents, processed_entries, rejected, parts,
                   top100_csv, rejected_csv, folder_stats, accepted, stream,
                   docs, prev, probe>>

\* lines 148-172: _top100_duplicates.csv is written; printing the most
\* common sentence raises IndexError when the folder has no row
ExportTop100 ==
    /\ pc = "top100"
    /\ \E top100 \in Top100Reads(store, CurFolder) :
          /\ top100_csv' = [top100_csv EXCEPT ![CurFolder] =
                [written |-> TRUE, rows |-> Top100Csv(top100)]]
          /\ pc' = IF top100 = <<>> THEN "crashed" ELSE "rejected"
    /\ sql' = <<"TOP100">>
    /\ UNCHANGED <<entries, cfg, run, all_folders, gi, store, in_txn, pending,
                   start, queue, total_sents, unique_sents, processed_entries,
                   rejected, parts, rejected_csv, folder_stats, accepted,
                   stream, docs, prev, probe>>

\* a plausible slip: the report is left for later and the documents are
\* written first
ExportRejectedLate ==
    /\ pc = "rejected"
    /\ pc' = "chunks"
    /\ sql' = <<>>
    /\ UNCHANGED <<entries, cfg, run, all_folders, gi, store, in_txn, pending,
                   start, queue, total_sents, unique_sents, processed_entries,
                   rejected, parts, top100_csv, rejected_csv, folder_stats,
                   accepted, stream, docs, prev, probe>>

\* lines 175-183: _rejected_sentences.csv is written
ExportRejected ==
    /\ pc = "rejected"
    /\ rejected_csv' = [rejected_csv EXCEPT ![CurFolder] =
          [written |-> TRUE, rows |-> rejected]]
    /\ pc' = "chunks"
    /\ sql' = <<>>
    /\ UNCHANGED <<entries, cfg, run, all_folders, gi, store, in_txn, pending,
                   start, queue, total_sents, unique_sents, processed_entries,
                   rejected, parts, top100_csv, folder_stats, accepted,
                   stream, docs, prev, probe>>

\* lines 186-224: the rows are read in the order of r, packed and written as
\* part files; the statistics of the folder are recorded
WriteChunks ==
    /\ pc = "chunks"
    /\ \E rows \in OrderedReads(store, CurFolder) :
          LET packed == PackFrom([i \in 1..Len(rows) |-> rows[i].text],
                                 cfg.target_word_count, <<>>, 0)
              written == [i \in 1..Len(packed) |->
                            Document(CurFolder, i, packed[i])]
          IN  /\ parts' = {p \in parts : ~(p.subpath = CurFolder
                                            /\ p.idx \in 1..Len(written))}
                             \cup {written[i] : i \in 1..Len(written)}
              /\ docs' = [docs EXCEPT ![CurFolder] = written]
              /\ stream' = [stream EXCEPT ![CurFolder] = rows]
              /\ folder_stats' = [folder_stats EXCEPT ![CurFolder] =
                    [present |-> TRUE, input_sentences |-> total_sents,
                     unique_sentences |-> unique_sents,
                     written |-> Len(written)]]
    /\ gi' = gi + 1
    /\ pc' = IF gi < Len(all_folders) THEN "reset" ELSE "close"
    /\ sql' = <<"STREAM">>
    /\ UNCHANGED <<entries, cfg, run, all_folders, store, in_txn, pending,
                   start, queue, total_sents, unique_sents, processed_entries,
                   rejected, top100_csv, rejected_csv, accepted, prev, probe>>

\* lines 226-227: the connection is closed, the statistics are returned
Close ==
    /\ pc = "close"
    /\ pc' = "done"
    /\ sql' = <<"CLOSE">>
    /\ UNCHANGED <<entries, cfg, run, all_folders, gi, store, in_txn, pending,
                   start, queue, total_sents, unique_sents, processed_entries,
                   rejected, parts, top100_csv, rejected_csv, folder_stats,
                   accepted, stream, docs, prev, probe>>

\* the run as it ended
Snapshot ==
    [valid |-> TRUE, entries |-> entries, cfg |-> cfg, outcome |-> pc,
     store |-> store, docs |-> docs, stream |-> stream]

\* run() is called again on the same output directory and database, with
\* the same entries in some order and some configuration
NextRun ==
    /\ pc \in {"done", "crashed"}
    /\ run + 1 \in Runs
    /\ prev' = Snapshot
    /\ run' = run + 1
    /\ entries' \in Reorderings(entries)
    /\ cfg' \in Configs
    /\ pc' = "start"
    /\ all_folders' = <<>>
    /\ gi' = 0
    /\ in_txn' = FALSE
    /\ pending' = 0
    /\ start' = 0
    /\ queue' = <<>>
    /\ total_sents' = 0
    /\ unique_sents' = 0
    /\ processed_entries' = 0
    /\ rejected' = <<>>
    /\ folder_stats' = [g \in AllFolders |-> NoStats]
    /\ accepted' = [g \in AllFolders |-> <<>>]
    /\ stream' = [g \in AllFolders |-> <<>>]
    /\ docs' = [g \in AllFolders |-> <<>>]
    /\ sql' = <<>>
    /\ UNCHANGED <<store, parts, top100_csv, rejected_csv, probe>>

Next ==
    \/ RunBegin
    \/ ResetGroup
    \/ NextBatch
    \/ ProcessSentence
    \/ EndIndex
    \/ ExportTop100
    \/ ExportRejected
    \/ WriteChunks
    \/ Close
    \/ NextRun

Spec == Init /\ [][Next]_vars

----------------------------------------------------------------------------
(* Properties of the deduplication store *)

\* the folder has been reset in the current run
ResetDone(g) ==
    \E k \in 1..Len(all_folders) :
        /\ all_folders[k] = g
        /\ k < gi \/ (k = gi /\ pc \notin {"start", "reset"})

\* the run is over, by return or by an exception
RunEnded == pc \in {"done", "crashed"}

\* a second run on the same entries has ended
SecondRunEnded == prev.valid /\ RunEnded

\* the sentences a run can store: the stripped sentences of the corpus
StoredTexts ==
    {Strip(s) : s \in UNION {{e.sents[i] : i \in 1..Len(e.sents)} :
                                e \in EntryPool \cup MalformedPool}}

\* the normal form (lowercased, whitespace-collapsed) of each of them
NormalForm == [s \in StoredTexts |-> NormSent(s)]

\* the number of accepted occurrences in folder g of the normal form of s
Occurrences(g, s) ==
    Cardinality({i \in 1..Len(accepted[g]) :
                    NormalForm[accepted[g][i]] = NormalForm[s]})

\* C1: in every folder reset in this run, after any number of upserts, each
\* normal form among the accepted sentences has exactly one row, every row
\* belongs to an accepted normal form, and the row's cnt is the number of
\* accepted occurrences of that normal form.
C1DedupCorrect ==
    \A g \in AllFolders :
        ResetDone(g) =>
            /\ \A i \in 1..Len(accepted[g]) :
                  Cardinality({row \in Rows(store, g) :
                      NormalForm[row.text] = NormalForm[accepted[g][i]]}) = 1
            /\ \A row \in Rows(store, g) :
                  /\ row.cnt = Occurrences(g, row.text)
                  /\ row.cnt >= 1

\* two surface forms of one sentence were accepted, three occurrences in all
C1Witness ==
    \E g \in AllFolders :
        /\ ResetDone(g)
        /\ \E row \in Rows(store, g) : row.cnt = 3
        /\ \E i, j \in 1..Len(accepted[g]) :
              /\ accepted[g][i] # accepted[g][j]
              /\ NormalForm[accepted[g][i]] = NormalForm[accepted[g][j]]
        /\ Cardinality(Rows(store, g)) >= 2

\* the step accepts the sentence at the head of the queue
AcceptStep == pc = "index" /\ total_sents' = total_sents + 1

\* the row of the folder in work that the accepted sentence conflicts with
Conflicting ==
    {row \in Rows(store, CurFolder) :
        row.h = SentHash(NormSent(Strip(Head(queue))))}

\* C5: an upsert of a sentence whose (folder, digest) row exists adds one to
\* cnt of that row and changes nothing else: the text stays the first-seen
\* surface form, r stays the value written at insertion, no row is added.
C5UpsertOnlyCounts ==
    [][(AcceptStep /\ Conflicting # {}) =>
          \E old \in Conflicting :
              store' = (store \ {old}) \cup {[old EXCEPT !.cnt = @ + 1]}]_vars

\* a row counted twice keeps the first surface form although another one
\* was accepted after it
C5Witness ==
    \E g \in AllFolders : \E row \in Rows(store, g) :
        /\ ResetDone(g)
        /\ row.cnt >= 2
        /\ Len(accepted[g]) >= 2
        /\ row.text = accepted[g][1]
        /\ \E j \in 2..Len(accepted[g]) :
              /\ accepted[g][j] # row.text
              /\ NormalForm[accepted[g][j]] = NormalForm[row.text]

\* a sentence accepted in two folders reset in this run has a row in each,
\* and each row counts the accepted occurrences of its own folder only
C6SeparateRecords ==
    \A g1, g2 \in AllFolders :
        (g1 # g2 /\ ResetDone(g1) /\ ResetDone(g2)) =>
            \A i \in 1..Len(accepted[g1]) :
                (Occurrences(g2, accepted[g1][i]) > 0) =>
                    /\ \E row \in Rows(store, g1) :
                          /\ NormalForm[row.text]
                                = NormalForm[accepted[g1][i]]
                          /\ row.cnt = Occurrences(g1, accepted[g1][i])
                    /\ \E row \in Rows(store, g2) :
                          /\ NormalForm[row.text]
                                = NormalForm[accepted[g1][i]]
                          /\ row.cnt = Occurrences(g2, accepted[g1][i])

\* an upsert leaves the rows of every other folder as they are
C6OtherFoldersUnchanged ==
    (pc = "index" /\ queue # <<>>) =>
        \A g \in AllFolders \ {CurFolder} : Rows(store', g) = Rows(store, g)

\* C6: the same sentence accepted in two folders has one row in each, each
\* counting the occurrences of its own folder, and an upsert into a folder
\* neither creates nor changes a row of another folder.
C6CrossGroupIsolation ==
    /\ []C6SeparateRecords
    /\ [][C6OtherFoldersUnchanged]_vars

\* one sentence is stored in two folders with different counts
C6Witness ==
    \E g1, g2 \in AllFolders :
        /\ g1 # g2 /\ ResetDone(g1) /\ ResetDone(g2)
        /\ \E r1 \in Rows(store, g1), r2 \in Rows(store, g2) :
              /\ r1.h = r2.h
              /\ r1.cnt = 2
              /\ r2.cnt = 1

\* the ordered read of the folder has been made in this run
StreamRead(g) == folder_stats[g].present

\* C8: the ordered read of a folder returns every row of the folder exactly
\* once and no row of another folder, in ascending order of r; a sentence
\* accepted k times is in the stream exactly once, with cnt = k.
C8OrderedStream ==
    \A g \in AllFolders :
        StreamRead(g) =>
            /\ {stream[g][i] : i \in 1..Len(stream[g])} = Rows(store, g)
            /\ Len(stream[g]) = Cardinality(Rows(store, g))
            /\ \A i, j \in 1..Len(stream[g]) :
                  i < j => stream[g][i].r < stream[g][j].r
            /\ \A k \in 1..Len(accepted[g]) :
                  \E i \in 1..Len(stream[g]) :
                      /\ NormalForm[stream[g][i].text]
                            = NormalForm[accepted[g][k]]
                      /\ stream[g][i].cnt = Occurrences(g, accepted[g][k])
                      /\ \A j \in 1..Len(stream[g]) :
                            NormalForm[stream[g][j].text]
                                = NormalForm[accepted[g][k]] => j = i

\* a sentence accepted three times, once in each of three entries, is read
\* once, with cnt 3, among other rows
C8Witness ==
    \E g \in AllFolders :
        /\ StreamRead(g)
        /\ Len(FolderIdxs(g)) = 3
        /\ Len(stream[g]) >= 2
        /\ \E i \in 1..Len(stream[g]) : stream[g][i].cnt = 3

----------------------------------------------------------------------------
(* Properties of two runs on the same output directory and database *)

\* the digests of the rows the ordered read returned, by folder
Digests(strm) ==
    [g \in AllFolders |-> [i \in 1..Len(strm[g]) |-> strm[g][i].h]]

\* the (folder, normal form, cnt) of the rows of the table
DedupSet(st) == {<<row.subpath, NormSent(row.text), row.cnt>> : row \in st}

\* the two configurations differ in the seed and in nothing else
OnlySeedDiffers(c1, c2) ==
    /\ c1.seed # c2.seed
    /\ [c1 EXCEPT !.seed = c2.seed] = c2

\* the documents of a folder, each content in normal form
NormDocs(ds) ==
    [i \in 1..Len(ds) |->
        [idx |-> ds[i].idx, title |-> ds[i].title,
         content |-> NormSent(ds[i].content)]]

\* every accepted sentence of the run has one surface form per normal form
OneSurfaceForm ==
    \A g \in AllFolders : \A i, j \in 1..Len(accepted[g]) :
        NormalForm[accepted[g][i]] = NormalForm[accepted[g][j]]
            => accepted[g][i] = accepted[g][j]

\* C2: a second run with the entries in the same order, the same seed and
\* the same configuration, on the store the first run left behind, writes
\* for every folder the same documents: as many, with the same content.
C2Idempotent ==
    (SecondRunEnded /\ entries = prev.entries /\ cfg = prev.cfg) =>
        /\ docs = prev.docs
        /\ pc = prev.outcome

\* the second of two identical runs has written a folder of two documents
C2Witness ==
    /\ SecondRunEnded /\ entries = prev.entries /\ cfg = prev.cfg
    /\ \E g \in AllFolders : Len(docs[g]) >= 2 /\ Len(stream[g]) >= 3

\* C3 as stated: with the same seed and configuration, the documents are
\* the same whatever the order of the entries.
C3AsClaimed ==
    (SecondRunEnded /\ cfg = prev.cfg) => docs = prev.docs

\* C3, amended: with the same seed and configuration, the order of the
\* entries changes neither the number of documents of a folder nor their
\* boundaries nor their content up to case and whitespace; the content is
\* the same to the character when every sentence accepted more than once
\* has a single surface form.
C3OrderIndependentChunks ==
    (SecondRunEnded /\ cfg = prev.cfg) =>
        /\ \A g \in AllFolders : NormDocs(docs[g]) = NormDocs(prev.docs[g])
        /\ OneSurfaceForm => docs = prev.docs

\* the entries came in another order, and a document of several sentences
\* differs in the surface form of a sentence only
C3Witness ==
    /\ SecondRunEnded /\ cfg = prev.cfg /\ entries # prev.entries
    /\ docs # prev.docs
    /\ \E g \in AllFolders : Len(docs[g]) >= 2

\* C4: for a fixed seed, the sequence of digests the ordered read returns
\* for a folder is the same for every order of insertion, every batch_size
\* and every commit_every.
C4OrderKeyDeterministic ==
    (SecondRunEnded /\ cfg.seed = prev.cfg.seed) =>
        Digests(stream) = Digests(prev.stream)

\* the same three sentences were inserted in another order, with other
\* batches and commits
C4Witness ==
    /\ SecondRunEnded /\ cfg.seed = prev.cfg.seed
    /\ cfg.batch_size # prev.cfg.batch_size
    /\ cfg.commit_every # prev.cfg.commit_every
    /\ entries # prev.entries
    /\ \E g \in AllFolders :
          /\ Len(stream[g]) >= 3
          /\ stream[g] # prev.stream[g]

\* C7: two runs on the same entries that differ in the seed only end with
\* the same (folder, normal form) rows, each with the same cnt.
C7SeedIndependentDedup ==
    (SecondRunEnded /\ entries = prev.entries
        /\ OnlySeedDiffers(cfg, prev.cfg)) =>
        DedupSet(store) = DedupSet(prev.store)

\* the other seed gave another order, and a row counts two occurrences
C7Witness ==
    /\ SecondRunEnded /\ entries = prev.entries
    /\ OnlySeedDiffers(cfg, prev.cfg)
    /\ Digests(stream) # Digests(prev.stream)
    /\ \E row \in store : row.cnt >= 2

\* the raw sentences of the entries of folder g, stripped, in the order
\* run() meets them
FolderSentences(g) ==
    LET idxs == FolderIdxs(g)
        raw == Flatten([k \in 1..Len(idxs) |-> entries[idxs[k]].sents])
    IN  [k \in 1..Len(raw) |-> Strip(raw[k])]

\* the (reason, sentence) of every occurrence the filter rejects in folder g
RejectedOccurrences(g) ==
    LET bad == SelectSeq(FolderSentences(g),
                         LAMBDA s : s # <<>> /\ ~IsGoodSentence(s).ok)
    IN  [k \in 1..Len(bad) |-> <<IsGoodSentence(bad[k]).reason, bad[k]>>]

\* C10: when the run is over, no rejected sentence is the text of a row or
\* part of a document, the counts of a folder add up to its accepted
\* occurrences, and the rejected-sentences report of every folder of the
\* run holds one row per rejected occurrence, with its reason.
C10RejectedExcludedAndReported ==
    RunEnded =>
        \A i \in 1..Len(entries) :
            LET g == Subpath(entries[i])
            IN  /\ \A row \in Rows(store, g) : IsGoodSentence(row.text).ok
                /\ \A k \in 1..Len(stream[g]) :
                      IsGoodSentence(stream[g][k].text).ok
                /\ rejected_csv[g].written
                /\ rejected_csv[g].rows = RejectedOccurrences(g)

----------------------------------------------------------------------------
(* _is_good_sentence on its own *)

MaxLower == 8

MaxUpper == 2

MaxDigits == 11

MaxPad == 1

Rep(ch, n) == [i \in 1..n |-> ch]

\* sentences of every length around the thresholds of the filter: padding,
\* lower-case letters, an optional space, upper-case letters, digits
ShapedInputs ==
    {Rep(" ", p) \o Rep("a", i) \o Rep(" ", sp) \o Rep("B", j)
        \o Rep("1", k) \o Rep("\t", p) :
        p \in 0..MaxPad, i \in 0..MaxLower, sp \in 0..1, j \in 0..MaxUpper,
        k \in 0..MaxDigits}

\* the boilerplate words, bare, padded and capitalised
BoilerInputs ==
    BadExact
    \cup {<<" ", " ", " ">> \o b \o <<"\t", " ", " ">> : b \in BadExact}
    \cup {<<"C">> \o Tail(b) : b \in BadExact}

FilterInputs ==
    ShapedInputs \cup BoilerInputs
    \cup {SentA, SentA2, SentB, SentC, SentShort, SentFewLetters, SentBlank}

InitFilter ==
    /\ f_in \in FilterInputs
    /\ f_out = Verdict(FALSE, "not called")
    /\ entries = <<>>
    /\ cfg = Config(0, 1, 1, 3)
    /\ run = 1
    /\ store = {}
    /\ parts = {}
    /\ top100_csv = [g \in AllFolders |-> NoCsv]
    /\ rejected_csv = [g \in AllFolders |-> NoCsv]
    /\ prev = NoPrev
    /\ h_in = NoCall
    /\ h_out = NoResults
    /\ rng = 0
    /\ loop = NoLoop
    /\ FreshRun

\* ok, reason = self._is_good_sentence(s)
CallFilter ==
    /\ f_out.reason = "not called"
    /\ f_out' = IsGoodSentence(f_in)
    /\ UNCHANGED <<entries, cfg, run, pc, all_folders, gi, store, in_txn,
                   pending, start, queue, total_sents, unique_sents,
                   processed_entries, rejected, parts, top100_csv,
                   rejected_csv, folder_stats, accepted, stream, docs, prev,
                   f_in, helpers, rng, sql, loop>>

NextFilter == CallFilter

FilterSpec == InitFilter /\ [][NextFilter]_vars

FilterCalled == f_out.reason # "not called"

\* the checks of the filter in their order, each with its reason
FilterChecks(s) ==
    << [reason |-> "too_short", fails |-> Len(Strip(s)) < 10],
       [reason |-> "too_few_letters",
        fails |-> Cardinality({i \in 1..Len(s) : IsAlpha(s[i])}) < 7],
       [reason |-> "too_few_words",
        fails |-> Cardinality({i \in 1..Len(Split(s)) :
                                 HasAlpha(Split(s)[i])}) < 2],
       [reason |-> "mostly_non_letters",
        fails |-> 2 * Cardinality({i \in 1..Len(s) : IsAlpha(s[i])})
                    < Len(Strip(s))],
       [reason |-> "boilerplate",
        fails |-> CollapseWs(Lower(Strip(s))) \in BadExact] >>

\* C9: _is_good_sentence returns the reason of the first check that fails,
\* in the order too_short, too_few_letters, too_few_words,
\* mostly_non_letters, boilerplate, and accepts exactly when none fails; a
\* sentence of length 9 with 3 letters is too_short.
C9FilterOrder ==
    FilterCalled =>
        LET checks == FilterChecks(f_in)
            failing == {k \in 1..Len(checks) : checks[k].fails}
        IN  /\ f_out.ok <=> failing = {}
            /\ f_out.ok => f_out.reason = "none"
            /\ \A k \in failing :
                  (\A m \in failing : k <= m) => f_out.reason = checks[k].reason
            /\ (Len(Strip(f_in)) = 9 /\ CountLetters(f_in) = 3)
                  => f_out.reason = "too_short"

\* a sentence of length 9 with 3 letters fails the first two checks and is
\* reported as too_short
C9Witness ==
    /\ FilterCalled
    /\ Len(Strip(f_in)) = 9
    /\ CountLetters(f_in) = 3
    /\ f_out = Verdict(FALSE, "too_short")

----------------------------------------------------------------------------
(* The packers, _subpath_from_rel_path and the duplicates query on their own *)

Abs(x) == IF x < 0 THEN 0 - x ELSE x

\* a plausible slip: strict comparison, a tie leaves the sentence out
CloserStrict(target, before_wc, after_wc) ==
    Abs(target - after_wc) < Abs(target - before_wc)

\* shuffler.py lines 213-216: after_diff <= before_diff
Closer(target, before_wc, after_wc) ==
    Abs(target - after_wc) <= Abs(target - before_wc)

\* shuffler.py lines 190-191: while i < n and not sentences[i].strip()
RECURSIVE SkipEmpties(_, _)
SkipEmpties(sentences, i) ==
    IF i <= Len(sentences) /\ Strip(sentences[i]) = <<>>
    THEN SkipEmpties(sentences, i + 1)
    ELSE i

\* shuffler.py lines 195-222: the inner loop; i and cur when it is left
RECURSIVE FillText(_, _, _, _, _)
FillText(sentences, target, i, cur, cur_wc) ==
    IF i > Len(sentences) THEN [i |-> i, cur |-> cur]
    ELSE LET s == Strip(sentences[i])
             before_wc == cur_wc
             after_wc == cur_wc + WordCount(s)
         IN  IF s = <<>>
             THEN FillText(sentences, target, i + 1, cur, cur_wc)
             ELSE IF after_wc < target
             THEN FillText(sentences, target, i + 1, Append(cur, s), after_wc)
             ELSE IF Closer(target, before_wc, after_wc)
             THEN [i |-> i + 1, cur |-> Append(cur, s)]
             ELSE [i |-> i, cur |-> cur]

\* shuffler.py lines 185-228: the outer loop; the texts yielded from index i
RECURSIVE TextsFrom(_, _, _)
TextsFrom(sentences, target, i) ==
    IF i > Len(sentences) THEN <<>>
    ELSE LET i1 == SkipEmpties(sentences, i)
         IN  IF i1 > Len(sentences) THEN <<>>
             ELSE LET left == FillText(sentences, target, i1, <<>>, 0)
                  IN  IF left.cur # <<>>
                      THEN <<Join(left.cur)>>
                               \o TextsFrom(sentences, target, left.i)
                      ELSE TextsFrom(sentences, target, left.i + 1)

\* RoRoShuffler._make_texts_close_to_target, as a list
MakeTextsCloseToTarget(sentences, target) == TextsFrom(sentences, target, 1)

\* the contents of the documents the loop of shuffler_db.py lines 210-217
\* writes for a stream of texts
FlushLoop(texts, target) ==
    LET packed == PackFrom(texts, target, <<>>, 0)
    IN  [k \in 1..Len(packed) |-> Strip(Join(packed[k]))]

MaxSents == 3

\* a sentence of n words, which the filter lets pass from two words on
RECURSIVE Words(_)
Words(n) ==
    IF n = 0 THEN <<>>
    ELSE IF n = 1 THEN <<"a", "b", "c", "d", "e", "f", "g", "h">>
    ELSE Words(n - 1) \o <<" ", "a", "b">>

\* sentences of 0 to 8 words, one of them blank and one padded
PackSents ==
    {<<" ", " ">>, <<"1", "2">>, Words(1), Words(2),
     <<" ">> \o Words(2) \o <<"\t">>, Words(3), Words(7), Words(8)}

\* a text as table sents holds it: stripped and let pass by the filter
Stored(s) == s = Strip(s) /\ IsGoodSentence(s).ok

PackTargets == {0, 1, 3, 10}

SeqsUpTo(S, n) == UNION {[1..k -> S] : k \in 0..n}

PackCalls ==
    {[kind |-> "sentences", sentences |-> ss, target |-> tg] :
        ss \in SeqsUpTo(PackSents, MaxSents), tg \in PackTargets}

MaxDepth == 3

MaxLevel == 3

\* Path(rel_path).parts of the file f.json in 0 to MaxDepth folders, and of
\* the empty rel_path
RelPaths ==
    {<<>>} \cup {d \o <<"f.json">> : d \in SeqsUpTo({"a", "b"}, MaxDepth)}

PathCalls ==
    {[kind |-> "path", parts |-> p, level |-> l] :
        p \in RelPaths, l \in (0 - 2)..MaxLevel}

MaxRows == 102

\* a table with n rows of folder a whose counts are 1..n, the count of row
\* tie raised to that of the next row, and a row of folder b when other
Table(n, tie, other) ==
    {Row(<<"a">>, i, i, Words(2) \o <<" ">> \o Decimal(i),
         IF i = tie THEN i + 1 ELSE i) : i \in 1..n}
    \cup (IF other
          THEN {Row(<<"b">>, 1, 1, Words(2) \o <<" ">> \o Decimal(1), n + 5)}
          ELSE {})

TableCalls ==
    {[kind |-> "table", store |-> Table(n, tie, other), subpath |-> <<"a">>] :
        n \in {0, 1, 2} \cup 99..MaxRows, tie \in {0, 1, 2, MaxRows - 100},
        other \in BOOLEAN}

InitHelpers ==
    /\ h_in \in PackCalls \cup PathCalls \cup TableCalls
    /\ h_out = NoResults
    /\ f_in = <<>>
    /\ f_out = Verdict(FALSE, "not called")
    /\ entries = <<>>
    /\ cfg = Config(0, 1, 1, 3)
    /\ run = 1
    /\ store = {}
    /\ parts = {}
    /\ top100_csv = [g \in AllFolders |-> NoCsv]
    /\ rejected_csv = [g \in AllFolders |-> NoCsv]
    /\ prev = NoPrev
    /\ rng = 0
    /\ loop = NoLoop
    /\ FreshRun

\* the variables of the runs, which a helper called on its own leaves alone
runs == <<entries, cfg, run, pc, all_folders, gi, store, in_txn, pending,
          start, queue, total_sents, unique_sents, processed_entries,
          rejected, parts, top100_csv, rejected_csv, folder_stats,
          accepted, stream, docs, prev, f_in, f_out, rng, sql>>

\* list(self._make_texts_close_to_target(sentences))
CallMakeTexts ==
    /\ h_in.kind = "sentences"
    /\ ~h_out.make_texts.called
    /\ h_out' = [h_out EXCEPT !.make_texts =
          Returned(MakeTextsCloseToTarget(h_in.sentences, h_in.target))]
    /\ UNCHANGED <<runs, h_in, loop>>

\* the loop of shuffler_db.py lines 210-217 on a stream of texts
CallFlushLoop ==
    /\ h_in.kind = "sentences"
    /\ \A i \in 1..Len(h_in.sentences) : Stored(h_in.sentences[i])
    /\ ~h_out.flush_loop.called
    /\ h_out' = [h_out EXCEPT !.flush_loop =
          Returned(FlushLoop(h_in.sentences, h_in.target))]
    /\ UNCHANGED <<runs, h_in, loop>>

\* self._subpath_from_rel_path(rel_path, level)
CallSubpath ==
    /\ h_in.kind = "path"
    /\ ~h_out.subpath.called
    /\ h_out' = [h_out EXCEPT !.subpath =
          Returned(SubpathFromRelPath(h_in.parts, h_in.level))]
    /\ UNCHANGED <<runs, h_in, loop>>

\* shuffler_db.py lines 152-170 on a table
CallTop100 ==
    /\ h_in.kind = "table"
    /\ ~h_out.top100.called
    /\ \E top100 \in Top100Reads(h_in.store, h_in.subpath) :
          h_out' = [h_out EXCEPT !.top100 = Returned(Top100Csv(top100))]
    /\ UNCHANGED <<runs, h_in, loop>>

NextHelpers ==
    \/ CallMakeTexts
    \/ CallFlushLoop
    \/ CallSubpath
    \/ CallTop100

HelperSpec == InitHelpers /\ [][NextHelpers]_vars

----------------------------------------------------------------------------
(* Properties of the packers *)

\* the sentences a packer looks at: stripped, the blank ones left out
NonBlank(sentences) ==
    SelectSeq([i \in 1..Len(sentences) |-> Strip(sentences[i])],
              LAMBDA s : s # <<>>)

\* the greedy best-of-two rule: the lists of sentences of the documents, for
\* the sentences ss still to pack, the buffer buf and its running count
RECURSIVE BestOfTwo(_, _, _, _)
BestOfTwo(ss, target, buf, count) ==
    IF ss = <<>>
    THEN IF buf = <<>> THEN <<>> ELSE <<buf>>
    ELSE LET s == Head(ss)
             before == count
             after == count + WordCount(s)
         IN  IF after < target
             THEN BestOfTwo(Tail(ss), target, Append(buf, s), after)
             ELSE IF Abs(target - after) <= Abs(target - before) \/ buf = <<>>
             THEN <<Append(buf, s)>> \o BestOfTwo(Tail(ss), target, <<>>, 0)
             ELSE <<buf>> \o BestOfTwo(ss, target, <<>>, 0)

BestOfTwoTexts(sentences, target) ==
    LET lists == BestOfTwo(NonBlank(sentences), target, <<>>, 0)
    IN  [k \in 1..Len(lists) |-> Join(lists[k])]

\* C11: for every sentence list and every positive target,
\* _make_texts_close_to_target yields the documents of the greedy best-of-two rule: a sentence that
\* keeps the count below the target is appended; one that reaches it is
\* appended and the document emitted when it ends at least as close to the
\* target as before (a tie includes it: target 10, 8 words, 3 more give 11),
\* and else the document is emitted and the sentence opens the next one.
C11BestOfTwo ==
    (h_out.make_texts.called /\ h_in.target > 0) =>
        /\ h_out.make_texts.value = BestOfTwoTexts(h_in.sentences, h_in.target)
        /\ (h_in.target = 10 /\ h_in.sentences = <<Words(8), Words(3)>>)
              => /\ h_out.make_texts.value = <<Join(<<Words(8), Words(3)>>)>>
                 /\ WordCount(h_out.make_texts.value[1]) = 11

\* C12: in RoRoShufflerDatabase.run the documents of a folder are those of
\* the best-of-two rule on its ordered stream: a sentence that makes the
\* running count reach the target is appended and the document flushed only
\* if that ends at least as close to the target as before; otherwise the
\* document is flushed without it and the sentence opens the next document.
C12DbBestOfTwo ==
    \A g \in AllFolders :
        StreamRead(g) =>
            [k \in 1..Len(docs[g]) |-> docs[g][k].content]
              = BestOfTwoTexts([i \in 1..Len(stream[g]) |-> stream[g][i].text],
                                cfg.target_word_count)

EndsWith(text, s) ==
    Len(text) >= Len(s)
    /\ SubSeq(text, Len(text) - Len(s) + 1, Len(text)) = s

RECURSIVE TotalWords(_)
TotalWords(ss) ==
    IF ss = <<>> THEN 0 ELSE WordCount(Head(ss)) + TotalWords(Tail(ss))

\* the documents out of a stream end with its last sentence, and a stream
\* that never reaches the target comes out as its one document
TrailingFlushed(out, ss, target) ==
    LET nb == NonBlank(ss)
    IN  nb # <<>> =>
           /\ out # <<>>
           /\ EndsWith(out[Len(out)], nb[Len(nb)])
           /\ TotalWords(nb) < target => out = <<Join(nb)>>

\* C13: at the end of the stream the buffer that remains is emitted as the
\* last document, also when it is below the target, by the loop of
\* RoRoShufflerDatabase.run and by _make_texts_close_to_target (which only
\* buffers a sentence of at most twice the target).
C13TrailingFlush ==
    /\ h_out.flush_loop.called =>
          TrailingFlushed(h_out.flush_loop.value, h_in.sentences, h_in.target)
    /\ (h_out.make_texts.called
        /\ NonBlank(h_in.sentences) # <<>>
        /\ WordCount(NonBlank(h_in.sentences)[Len(NonBlank(h_in.sentences))])
              <= 2 * h_in.target)
          => TrailingFlushed(h_out.make_texts.value, h_in.sentences,
                             h_in.target)

\* five words at target 10: both packers emit the one document of five
\* words
C13Witness ==
    /\ h_in.kind = "sentences"
    /\ h_in.target = 10
    /\ h_in.sentences = <<Words(2), Words(3)>>
    /\ h_out.flush_loop = Returned(<<Join(<<Words(2), Words(3)>>)>>)
    /\ h_out.make_texts = Returned(<<Join(<<Words(2), Words(3)>>)>>)
    /\ WordCount(h_out.flush_loop.value[1]) = 5

----------------------------------------------------------------------------
(* Properties of the output documents of run() *)

DigitValue(ch) == CHOOSE d \in 0..9 : DigitChar(d) = ch

RECURSIVE NumberOf(_)
NumberOf(digits) ==
    IF digits = <<>> THEN 0
    ELSE 10 * NumberOf(SubSeq(digits, 1, Len(digits) - 1))
           + DigitValue(digits[Len(digits)])

\* name is part_ followed by the number k in three digits
IsPartName(name, k) ==
    /\ Len(name) = 4
    /\ name[1] = "part_"
    /\ \A i \in 2..4 : \E d \in 0..9 : name[i] = DigitChar(d)
    /\ NumberOf(Tail(name)) = k

\* C14: the documents of each folder are numbered 1, 2, ..., n without gap
\* or repetition, every folder starts again at 1, and the title of document
\* i is the zero-padded name part_i of its file.
C14SequentialNumbering ==
    \A g \in AllFolders :
        /\ \A k \in 1..Len(docs[g]) :
              /\ docs[g][k].idx = k
              /\ docs[g][k].subpath = g
              /\ IsPartName(docs[g][k].title, k)
              /\ docs[g][k] \in parts
        /\ \A p, q \in parts :
              (p.subpath = q.subpath /\ p.idx = q.idx) => p = q
        /\ \A p \in parts :
              p.subpath = g =>
                 /\ IsPartName(p.title, p.idx)
                 /\ \A k \in 1..p.idx : \E q \in parts : q.subpath = g /\ q.idx = k

\* a run wrote two documents for folder a and one for folder b, each
\* numbered from part_001
C14Witness ==
    /\ pc = "done"
    /\ Len(docs[<<"a">>]) = 2
    /\ Len(docs[<<"b">>]) = 1
    /\ docs[<<"a">>][2].title = <<"part_", "0", "0", "2">>
    /\ docs[<<"b">>][1].title = <<"part_", "0", "0", "1">>

----------------------------------------------------------------------------
(* Properties of the grouping *)

\* the folders of a relative path: all its components but the file name
FolderPath(rel) == SubSeq(rel, 1, Len(rel) - 1)

\* C15: _subpath_from_rel_path maps every relative path, a file directly
\* under the root included, to a prefix of its folder path: the top-level
\* folder at level 0, the whole folder path at level -1, and the first N + 1
\* folders, or all if there are fewer, at level N > 0.
C15SubpathPrefix ==
    (h_out.subpath.called /\ h_in.parts # <<>> /\ h_in.level >= 0 - 1) =>
        LET folders == FolderPath(h_in.parts)
            depth == Len(folders)
            kept == IF h_in.level = 0 THEN Min(1, depth)
                    ELSE IF h_in.level = 0 - 1 THEN depth
                    ELSE Min(h_in.level + 1, depth)
        IN  h_out.subpath.value = SubSeq(folders, 1, kept)

----------------------------------------------------------------------------
(* Properties of the reset *)

\* the reset of the folder in work is the step from "reset" to "index"
C16ResetStep ==
    (pc = "reset" /\ pc' = "index") =>
        /\ Rows(store', CurFolder) = {}
        /\ \A g \in AllFolders \ {CurFolder} : Rows(store', g) = Rows(store, g)

\* the rows of a folder reset in this run come from this run alone: the
\* count, the stored text (the first accepted form) and the order key
C16RowsOfThisRun ==
    \A g \in AllFolders :
        ResetDone(g) =>
            \A row \in Rows(store, g) :
                LET same == {i \in 1..Len(accepted[g]) :
                               NormalForm[accepted[g][i]] = NormalForm[row.text]}
                IN  /\ same # {}
                    /\ row.cnt = Cardinality(same)
                    /\ row.text = accepted[g][CHOOSE i \in same :
                                                \A j \in same : i <= j]
                    /\ row.r = SentRandKey(row.h, cfg.seed)

\* C16: the reset at the start of a folder deletes every row of the folder
\* and leaves the rows of every other folder as they are, so that no row of
\* an earlier run contributes to the counts, the stored texts or the order
\* of the current run.
C16ResetFrame ==
    /\ [][C16ResetStep]_vars
    /\ []C16RowsOfThisRun

\* the second run, with another seed, has just reset folder a, which had
\* rows, and folder b still has the rows of the first run
C16Witness ==
    /\ run = 2
    /\ prev.cfg.seed # cfg.seed
    /\ pc = "index" /\ start = 0 /\ queue = <<>>
    /\ CurFolder = <<"a">>
    /\ Rows(prev.store, <<"a">>) # {}
    /\ Rows(store, <<"a">>) = {}
    /\ Rows(store, <<"b">>) # {}
    /\ Rows(store, <<"b">>) = Rows(prev.store, <<"b">>)

----------------------------------------------------------------------------
(* run() on entries without text and with an invalid configuration *)

InitMalformed ==
    /\ entries \in [1..NumEntries -> MalformedPool]
    /\ cfg \in Configs \cup InvalidConfigs
    /\ run = 1
    /\ store = {}
    /\ parts = {}
    /\ top100_csv = [g \in AllFolders |-> NoCsv]
    /\ rejected_csv = [g \in AllFolders |-> NoCsv]
    /\ prev = NoPrev
    /\ f_in = <<>>
    /\ f_out = Verdict(FALSE, "not called")
    /\ h_in = NoCall
    /\ h_out = NoResults
    /\ rng = 0
    /\ loop = NoLoop
    /\ FreshRun

MalformedSpec == InitMalformed /\ [][Next]_vars

\* the entries routed to g, of which there are some, all lack a text
OnlyEmptyEntries(g) ==
    /\ FolderIdxs(g) # <<>>
    /\ \A k \in 1..Len(FolderIdxs(g)) : entries[FolderIdxs(g)[k]].sents = <<>>

\* C17: an entry with missing or empty text is skipped silently: it adds no
\* row, no rejected sentence and no output, and no error is raised, so that
\* the run goes on with the remaining entries and folders, also when every
\* entry of a folder is such an entry.
C17EmptyEntriesSkipped ==
    \A g \in AllFolders :
        OnlyEmptyEntries(g) =>
            /\ Rows(store, g) = {}
            /\ docs[g] = <<>>
            /\ rejected_csv[g].rows = <<>>
            /\ ~(pc = "crashed" /\ CurFolder = g)

\* C19: a configuration with a level below -1 is rejected before processing
\* starts: no folder is reset, no row is written, no file is produced.
C19InvalidConfigRejected ==
    cfg \in InvalidConfigs =>
        /\ \A g \in AllFolders :
              /\ ~ResetDone(g)
              /\ ~top100_csv[g].written
              /\ ~rejected_csv[g].written
        /\ store = {}
        /\ parts = {}

----------------------------------------------------------------------------
(* Properties of the duplicates report *)

\* C20: the duplicates report of a folder lists min(100, number of rows of
\* the folder) rows, ranked 1..n with counts that never increase, each a
\* row of that folder, and no row left out has a greater count than a row
\* listed.
C20Top100Report ==
    h_out.top100.called =>
        LET report == h_out.top100.value
            recs == Rows(h_in.store, h_in.subpath)
            listed == {row \in recs :
                         \E i \in 1..Len(report) :
                            report[i][2] = row.cnt /\ report[i][3] = row.text}
        IN  /\ Len(report) = Min(100, Cardinality(recs))
            /\ \A i \in 1..Len(report) : report[i][1] = i
            /\ \A i, j \in 1..Len(report) :
                  i < j => /\ report[i][2] >= report[j][2]
                           /\ report[i][3] # report[j][3]
            /\ Cardinality(listed) = Len(report)
            /\ \A row \in recs \ listed :
                  \A i \in 1..Len(report) : row.cnt <= report[i][2]

\* 102 rows of the folder and a row of another folder with a greater count:
\* the report has 100 rows, from count 102 down to count 3, and leaves out a
\* row of count 3
C20Witness ==
    /\ h_in.kind = "table"
    /\ h_out.top100.called
    /\ Cardinality(Rows(h_in.store, <<"a">>)) = 102
    /\ Rows(h_in.store, <<"b">>) # {}
    /\ Len(h_out.top100.value) = 100
    /\ h_out.top100.value[1][2] = 102
    /\ h_out.top100.value[100][2] = 3
    /\ \E row \in Rows(h_in.store, <<"a">>) :
          /\ row.cnt = 3
          /\ \A i \in 1..100 : h_out.top100.value[i][3] # row.text

----------------------------------------------------------------------------
(* run() of the in-memory RoRoShuffler *)

\* the entries the in-memory run is given: with sentences, or a document in
\* which the segmenter finds none
MemPool == EntryPool \cup MalformedPool

\* rng.shuffle draws below i for i = n, n - 1, ..., 2: the k-th draw of the
\* generator seeded with seed is a fixed function of seed and k
RandBelow(seed, k, n) == ((seed + 3) * (k + 5) * 7 + k) % n

Swap(x, i, j) == [x EXCEPT ![i] = x[j], ![j] = x[i]]

\* random.Random.shuffle from position i down, k draws made before
RECURSIVE ShuffleFrom(_, _, _, _)
ShuffleFrom(x, seed, k, i) ==
    IF i < 2 THEN x
    ELSE ShuffleFrom(Swap(x, i, RandBelow(seed, k, i) + 1), seed, k + 1, i - 1)

Shuffle(x, seed, k) == ShuffleFrom(x, seed, k, Len(x))

\* shuffler.py lines 85-92: the first sentence of each normal form, stripped
RECURSIVE UniqueSentences(_, _)
UniqueSentences(sentences, seen) ==
    IF sentences = <<>> THEN <<>>
    ELSE LET s == Head(sentences)
             key == NormSent(s)
         IN  IF key = <<>> \/ key \in seen
             THEN UniqueSentences(Tail(sentences), seen)
             ELSE <<Strip(s)>> \o UniqueSentences(Tail(sentences), seen \cup {key})

\* by_folder_content[g]: the documents of the entries routed to g, in order
FolderDocs(g) ==
    [k \in 1..Len(FolderIdxs(g)) |-> entries[FolderIdxs(g)[k]].sents]

\* _sentences_from_doc raises when the document has no sentence
SegmentationFails(g) ==
    \E k \in 1..Len(FolderDocs(g)) : FolderDocs(g)[k] = <<>>

\* the payload of shuffler.py lines 106-112 for the idx-th text
MemDocument(g, idx, text) ==
    [subpath |-> g, idx |-> idx, title |-> PartName(idx),
     content |-> Strip(text)]

InitMem ==
    /\ entries \in [1..NumEntries -> MemPool]
    /\ cfg \in Configs
    /\ run = 1
    /\ store = {}
    /\ parts = {}
    /\ top100_csv = [g \in AllFolders |-> NoCsv]
    /\ rejected_csv = [g \in AllFolders |-> NoCsv]
    /\ prev = NoPrev
    /\ f_in = <<>>
    /\ f_out = Verdict(FALSE, "not called")
    /\ h_in = NoCall
    /\ h_out = NoResults
    /\ rng = 0
    /\ loop = NoLoop
    /\ FreshRun

\* what the in-memory run never touches
db == <<run, store, in_txn, pending, start, queue, total_sents, unique_sents,
        processed_entries, rejected, top100_csv, rejected_csv, accepted,
        stream, prev, f_in, f_out, h_in, h_out, sql, loop>>

\* shuffler.py lines 35-65: the generator is seeded, the documents are
\* gathered by folder
MemBegin ==
    /\ pc = "start"
    /\ rng' = 0
    /\ all_folders' = SortedPaths({Subpath(entries[i]) : i \in 1..Len(entries)})
    /\ gi' = 1
    /\ pc' = IF Len(entries) = 0 THEN "return" ELSE "shuffle"
    /\ UNCHANGED <<entries, cfg, parts, docs, folder_stats, db>>

\* shuffler.py lines 67-125: the sentences of one folder are gathered,
\* deduplicated, shuffled, packed and written
MemFolder ==
    /\ pc = "shuffle"
    /\ IF SegmentationFails(CurFolder)
       THEN /\ pc' = "crashed"
            /\ UNCHANGED <<gi, rng, parts, docs, folder_stats>>
       ELSE LET sentences == Flatten(FolderDocs(CurFolder))
                unique_sentences == UniqueSentences(sentences, {})
                shuffled == Shuffle(unique_sentences, cfg.seed, rng)
                texts == MakeTextsCloseToTarget(shuffled, cfg.target_word_count)
                written == [i \in 1..Len(texts) |->
                              MemDocument(CurFolder, i, texts[i])]
            IN  /\ rng' = rng + (IF Len(unique_sentences) > 1
                                 THEN Len(unique_sentences) - 1 ELSE 0)
                /\ parts' = {p \in parts : ~(p.subpath = CurFolder
                                              /\ p.idx \in 1..Len(written))}
                               \cup {written[i] : i \in 1..Len(written)}
                /\ docs' = [docs EXCEPT ![CurFolder] = written]
                /\ folder_stats' = [folder_stats EXCEPT ![CurFolder] =
                      [present |-> TRUE, input_sentences |-> Len(sentences),
                       unique_sentences |-> Len(unique_sentences),
                       written |-> Len(written)]]
                /\ gi' = gi + 1
                /\ pc' = IF gi < Len(all_folders) THEN "shuffle" ELSE "return"
    /\ UNCHANGED <<entries, cfg, all_folders, db>>

\* shuffler.py line 127
MemReturn ==
    /\ pc = "return"
    /\ pc' = "done"
    /\ UNCHANGED <<entries, cfg, all_folders, gi, rng, parts, docs,
                   folder_stats, db>>

\* run() of a new RoRoShuffler with the same configuration on the same
\* output directory, one entry of the input replaced by another
MemNextRun ==
    /\ pc \in {"done", "crashed"}
    /\ run + 1 \in Runs
    /\ prev' = Snapshot
    /\ run' = run + 1
    /\ \E k \in 1..Len(entries) : \E e \in MemPool :
          /\ e # entries[k]
          /\ entries' = [entries EXCEPT ![k] = e]
    /\ pc' = "start"
    /\ all_folders' = <<>>
    /\ gi' = 0
    /\ folder_stats' = [g \in AllFolders |-> NoStats]
    /\ docs' = [g \in AllFolders |-> <<>>]
    /\ UNCHANGED <<cfg, rng, parts, store, in_txn, pending, start, queue,
                   total_sents, unique_sents, processed_entries, rejected,
                   top100_csv, rejected_csv, accepted, stream, f_in, f_out,
                   h_in, h_out, sql, loop>>

NextMem ==
    \/ MemBegin
    \/ MemFolder
    \/ MemReturn
    \/ MemNextRun

MemSpec == InitMem /\ [][NextMem]_vars

\* C18: when the segmenter finds no sentence in one document, that document
\* alone is skipped: the run does not abort, the other documents of the
\* folder are processed and the output of the folder is written.
C18SegmentationFailureSkipped ==
    /\ pc # "crashed"
    /\ pc = "done" =>
          \A g \in AllFolders :
              (\E k \in 1..Len(FolderDocs(g)) :
                  \E i \in 1..Len(FolderDocs(g)[k]) :
                      WordCount(FolderDocs(g)[k][i]) > 0)
                 => docs[g] # <<>>

----------------------------------------------------------------------------
(* The transactions of the indexing phase *)

\* the step executes the upsert of the sentence at the head of the queue
UpsertStep ==
    /\ pc = "index"
    /\ queue # <<>>
    /\ sql' # <<>>
    /\ Head(sql') = "UPSERT"

\* the step commits after its upsert
CommitsAfterUpsert ==
    /\ Len(sql') >= 2
    /\ sql'[2] = "COMMIT"

\* an upsert executes in an open transaction that holds fewer than
\* commit_every upserts, and is followed by a commit exactly when it is the
\* commit_every-th, 2 * commit_every-th, ... upsert of the folder
C21UpsertStep ==
    UpsertStep =>
        /\ in_txn
        /\ pending + 1 <= cfg.commit_every
        /\ Len(accepted'[CurFolder]) = Len(accepted[CurFolder]) + 1
        /\ CommitsAfterUpsert
              <=> Len(accepted'[CurFolder]) % cfg.commit_every = 0
        /\ pending' = IF CommitsAfterUpsert THEN 0 ELSE pending + 1

\* the upserts not yet committed are those made since the last multiple of
\* commit_every, and they sit in an open transaction
C21Uncommitted ==
    /\ pending <= cfg.commit_every
    /\ pending > 0 => in_txn
    /\ pc = "index" =>
          /\ in_txn
          /\ pending = Len(accepted[CurFolder]) % cfg.commit_every

\* C21: every upsert executes while a transaction is open, a commit is
\* issued after every commit_every-th upsert of a folder, and the number of
\* upserts not yet committed never exceeds commit_every.
C21CommitEvery ==
    /\ []C21Uncommitted
    /\ [][C21UpsertStep]_vars

\* with commit_every = 2 the third upsert of a folder is pending, the first
\* two are committed
C21Witness ==
    /\ pc = "index"
    /\ cfg.commit_every = 2
    /\ Len(accepted[CurFolder]) = 3
    /\ pending = 1
    /\ in_txn
    /\ sql = <<"UPSERT">>

----------------------------------------------------------------------------
(* The order of the reports and the documents of a folder *)

\* a report of folder g has been written in the current run
ReportWritten(g) ==
    \E k \in 1..Len(all_folders) :
        /\ all_folders[k] = g
        /\ k < gi \/ (k = gi /\ pc \in {"rejected", "chunks", "crashed"})

\* the documents of folder g have been written in the current run
DocumentsWritten(g) == folder_stats[g].present

\* the reports of the folder in work hold what this run found
ReportsOfThisRun ==
    /\ rejected_csv[CurFolder] = [written |-> TRUE, rows |-> rejected]
    /\ top100_csv[CurFolder].written
    /\ LET rows == top100_csv[CurFolder].rows
       IN  /\ Len(rows) = Cardinality(Rows(store, CurFolder))
           /\ {<<rows[i][2], rows[i][3]>> : i \in 1..Len(rows)}
                 = {<<row.cnt, row.text>> : row \in Rows(store, CurFolder)}

\* C22 as claimed: the duplicates report and the rejected report of a
\* folder are written only after all documents of the folder are written.
C22ReportsAfterDocuments ==
    \A g \in AllFolders : ReportWritten(g) => DocumentsWritten(g)

\* C22: the duplicates report and the rejected report of a folder are
\* written after the folder is indexed and before its ordered stream is read
\* and its first document is written: when the documents are about to be
\* written both reports hold the findings of this run, and while a report
\* is being written no document of the folder has been written.
C22ReportsBeforeDocuments ==
    /\ pc \in {"top100", "rejected", "chunks"} =>
          /\ ~DocumentsWritten(CurFolder)
          /\ docs[CurFolder] = <<>>
          /\ stream[CurFolder] = <<>>
          /\ ~in_txn
          /\ queue = <<>>
    /\ pc = "chunks" => ReportsOfThisRun
    /\ \A g \in AllFolders :
          DocumentsWritten(g) =>
              top100_csv[g].written /\ rejected_csv[g].written

\* both reports of a folder with rows and rejected sentences are written,
\* the documents are not
C22Witness ==
    /\ pc = "chunks"
    /\ ReportsOfThisRun
    /\ rejected # <<>>
    /\ Rows(store, CurFolder) # {}
    /\ ~DocumentsWritten(CurFolder)

----------------------------------------------------------------------------
(* Sentences of at least the target met with an empty buffer *)

\* C23: in _make_texts_close_to_target a sentence met with an empty buffer
\* whose word count is at or above the target, by any amount, is included in
\* an output document: the first non-blank sentence of the list, when it has
\* at least target words, is the first document.
C23OversizedIncluded ==
    (/\ h_out.make_texts.called
     /\ h_in.target > 0
     /\ NonBlank(h_in.sentences) # <<>>
     /\ WordCount(NonBlank(h_in.sentences)[1]) >= h_in.target)
        => /\ h_out.make_texts.value # <<>>
           /\ h_out.make_texts.value[1] = NonBlank(h_in.sentences)[1]

----------------------------------------------------------------------------
(* Two in-memory runs that differ in the entries of one folder *)

\* the entries of es routed to folder g, in order
EntriesOf(es, g) == SelectSeq(es, LAMBDA e : Subpath(e) = g)

\* C24: in RoRoShuffler.run the documents of a folder, and so the order of
\* its sentences, depend only on the entries of that folder, the seed and
\* the configuration: of two completed runs with the same configuration, a
\* folder with the same entries in both has the same documents in both,
\* whatever the entries of the other folders are.
C24GroupIndependent ==
    (prev.valid /\ prev.outcome = "done" /\ pc = "done" /\ prev.cfg = cfg) =>
        \A g \in AllFolders :
            (EntriesOf(prev.entries, g) = EntriesOf(entries, g))
                => docs[g] = prev.docs[g]

----------------------------------------------------------------------------
(* The documents of a folder against its ordered stream *)

\* the texts cut into consecutive lists after the positions in cuts and
\* after the last one; buf holds the texts since the last cut
RECURSIVE Blocks(_, _, _, _)
Blocks(texts, cuts, i, buf) ==
    IF i > Len(texts) THEN <<>>
    ELSE IF i \in cuts \/ i = Len(texts)
    THEN <<Append(buf, texts[i])>> \o Blocks(texts, cuts, i + 1, <<>>)
    ELSE Blocks(texts, cuts, i + 1, Append(buf, texts[i]))

\* the contents of the documents of folder g written in this run
Contents(g) == [k \in 1..Len(docs[g]) |-> docs[g][k].content]

\* the texts of the ordered stream of folder g
StreamTexts(g) == [i \in 1..Len(stream[g]) |-> stream[g][i].text]

\* C25: the chunk writer of RoRoShufflerDatabase.run loses and duplicates
\* nothing: the ordered stream of a folder holds each of its rows once, the
\* documents 1..n are the stream cut into n consecutive non-empty lists of
\* sentences, each joined by single spaces, and no document is empty.
C25NothingLostOrDuplicated ==
    \A g \in AllFolders :
        DocumentsWritten(g) =>
            /\ Len(stream[g]) = Cardinality(Rows(store, g))
            /\ {stream[g][i] : i \in 1..Len(stream[g])} = Rows(store, g)
            /\ \E cuts \in SUBSET (1..(Len(stream[g]) - 1)) :
                  LET lists == Blocks(StreamTexts(g), cuts, 1, <<>>)
                  IN  Contents(g) = [k \in 1..Len(lists) |-> Join(lists[k])]
            /\ \A k \in 1..Len(docs[g]) : docs[g][k].content # <<>>
            /\ docs[g] = <<>> <=> stream[g] = <<>>

\* three rows in two documents, one of them holding two sentences
C25Witness ==
    \E g \in AllFolders :
        /\ DocumentsWritten(g)
        /\ Len(stream[g]) = 3
        /\ Len(docs[g]) = 2

----------------------------------------------------------------------------
(* _make_texts_close_to_target, one loop test at a time *)

LoopTargets == {0 - 1, 0, 1, 3}

\* sentences of 0, 1, 3 and 7 words, one of them blank
LoopSents == {<<" ", " ">>, <<"1", "2">>, Words(1), Words(3), Words(7)}

LoopCalls ==
    {[kind |-> "sentences", sentences |-> ss, target |-> tg] :
        ss \in SeqsUpTo(LoopSents, MaxSents), tg \in LoopTargets}

\* self._word_count(s) of each stripped sentence of the loop, tabulated
LoopWordCount == [s \in {Strip(x) : x \in LoopSents} |-> WordCount(s)]

\* shuffler.py lines 182-183; i counts from 1 here, i0 is the value of i
\* when the current iteration of the outer loop began
LoopEntered ==
    [pc |-> "outer", i |-> 1, i0 |-> 1, cur |-> <<>>, cur_wc |-> 0,
     texts |-> <<>>]

InitLoop ==
    /\ h_in \in LoopCalls
    /\ loop = LoopEntered
    /\ h_out = NoResults
    /\ f_in = <<>>
    /\ f_out = Verdict(FALSE, "not called")
    /\ entries = <<>>
    /\ cfg = Config(0, 1, 1, 3)
    /\ run = 1
    /\ store = {}
    /\ parts = {}
    /\ top100_csv = [g \in AllFolders |-> NoCsv]
    /\ rejected_csv = [g \in AllFolders |-> NoCsv]
    /\ prev = NoPrev
    /\ rng = 0
    /\ FreshRun

\* a plausible slip: the index is not advanced when no text was built
SkipPathologicalStay(i) == i

\* shuffler.py line 228: i += 1
SkipPathological(i) == i + 1

\* shuffler.py lines 185-187: while i < n: cur = []; cur_wc = 0
OuterTest ==
    /\ loop.pc = "outer"
    /\ loop' = IF loop.i > Len(h_in.sentences)
               THEN [loop EXCEPT !.pc = "done"]
               ELSE [loop EXCEPT !.pc = "skip", !.i0 = loop.i,
                                 !.cur = <<>>, !.cur_wc = 0]
    /\ UNCHANGED <<runs, helpers>>

\* shuffler.py lines 190-193: one test of the loop that skips empties, and
\* the break when the list is exhausted
SkipStep ==
    /\ loop.pc = "skip"
    /\ loop' = IF loop.i <= Len(h_in.sentences)
                  /\ Strip(h_in.sentences[loop.i]) = <<>>
               THEN [loop EXCEPT !.i = loop.i + 1]
               ELSE IF loop.i > Len(h_in.sentences)
               THEN [loop EXCEPT !.pc = "done"]
               ELSE [loop EXCEPT !.pc = "inner"]
    /\ UNCHANGED <<runs, helpers>>

\* shuffler.py lines 195-222: one test of the inner loop and its body
InnerStep ==
    /\ loop.pc = "inner"
    /\ loop' =
          IF loop.i > Len(h_in.sentences)
          THEN [loop EXCEPT !.pc = "emit"]
          ELSE LET s == Strip(h_in.sentences[loop.i])
                   before_wc == loop.cur_wc
                   after_wc == loop.cur_wc + LoopWordCount[s]
               IN  IF s = <<>>
                   THEN [loop EXCEPT !.i = loop.i + 1]
                   ELSE IF after_wc < h_in.target
                   THEN [loop EXCEPT !.cur = Append(loop.cur, s),
                                     !.cur_wc = after_wc, !.i = loop.i + 1]
                   ELSE IF Closer(h_in.target, before_wc, after_wc)
                   THEN [loop EXCEPT !.cur = Append(loop.cur, s),
                                     !.cur_wc = after_wc, !.i = loop.i + 1,
                                     !.pc = "emit"]
                   ELSE [loop EXCEPT !.pc = "emit"]
    /\ UNCHANGED <<runs, helpers>>

\* shuffler.py lines 224-228: the text is yielded, or the sentence skipped
EmitStep ==
    /\ loop.pc = "emit"
    /\ loop' = IF loop.cur # <<>>
               THEN [loop EXCEPT !.texts = Append(loop.texts, Join(loop.cur)),
                                 !.pc = "outer"]
               ELSE [loop EXCEPT !.i = SkipPathological(loop.i),
                                 !.pc = "outer"]
    /\ UNCHANGED <<runs, helpers>>

NextLoop ==
    \/ OuterTest
    \/ SkipStep
    \/ InnerStep
    \/ EmitStep

\* the generator is driven until it is exhausted: list(...) in a caller
LoopSpec == InitLoop /\ [][NextLoop]_vars /\ WF_vars(NextLoop)

\* the generator is exhausted
LoopDone == loop.pc = "done"

\* an iteration of the outer loop ends with the index beyond where it began
OuterAdvances ==
    (loop.pc = "emit" /\ loop'.pc = "outer") => loop'.i > loop.i0

\* no loop test moves the index backwards or beyond the end of the list
IndexInRange ==
    /\ loop'.i >= loop.i
    /\ loop'.i <= Len(h_in.sentences) + 1

\* C26: _make_texts_close_to_target terminates for every finite list and
\* every integer target, also a target of zero or below and sentences longer
\* than the target: each iteration of the outer loop strictly advances the
\* sentence index, which never moves back.
C26Terminates ==
    /\ <>LoopDone
    /\ [][OuterAdvances /\ IndexInRange]_vars

\* the generator is exhausted on a list of three sentences at a target of
\* zero or below, one of them of seven words, and has yielded what the
\* function yields
C26Witness ==
    /\ LoopDone
    /\ h_in.target <= 0
    /\ Len(h_in.sentences) = 3
    /\ \E k \in 1..3 : WordCount(h_in.sentences[k]) = 7
    /\ loop.i = 4
    /\ loop.texts = MakeTextsCloseToTarget(h_in.sentences, h_in.target)

\* stepped through, the loop yields the texts of the function
LoopAgrees ==
    LoopDone =>
        loop.texts = MakeTextsCloseToTarget(h_in.sentences, h_in.target)

----------------------------------------------------------------------------
(* The boilerplate check of the filter *)

\* C27: _is_good_sentence never returns the reason boilerplate: a sentence
\* whose normal form is one of the boilerplate words has a trimmed length
\* below 10 and is rejected as too_short.
C27NeverBoilerplate ==
    FilterCalled =>
        /\ f_out.reason # "boilerplate"
        /\ NormSent(f_in) \in BadExact =>
              /\ Len(Strip(f_in)) < MinLength
              /\ f_out = Verdict(FALSE, "too_short")

\* a boilerplate word, capitalised or padded, is rejected as too_short
C27Witness ==
    /\ FilterCalled
    /\ NormSent(f_in) \in BadExact
    /\ f_in \notin BadExact
    /\ f_out = Verdict(FALSE, "too_short")

----------------------------------------------------------------------------
(* The part files of a folder after a run *)

\* the part files in the output directory of folder g
PartFiles(g) == {p \in parts : p.subpath = g}

\* run() is called again on the same output directory and database after
\* the last entry has left the corpus, with some configuration
NextRunFewer ==
    /\ pc \in {"done", "crashed"}
    /\ run + 1 \in Runs
    /\ Len(entries) > 1
    /\ prev' = Snapshot
    /\ run' = run + 1
    /\ entries' = SubSeq(entries, 1, Len(entries) - 1)
    /\ cfg' \in Configs
    /\ pc' = "start"
    /\ all_folders' = <<>>
    /\ gi' = 0
    /\ in_txn' = FALSE
    /\ pending' = 0
    /\ start' = 0
    /\ queue' = <<>>
    /\ total_sents' = 0
    /\ unique_sents' = 0
    /\ processed_entries' = 0
    /\ rejected' = <<>>
    /\ folder_stats' = [g \in AllFolders |-> NoStats]
    /\ accepted' = [g \in AllFolders |-> <<>>]
    /\ stream' = [g \in AllFolders |-> <<>>]
    /\ docs' = [g \in AllFolders |-> <<>>]
    /\ sql' = <<>>
    /\ UNCHANGED <<store, parts, top100_csv, rejected_csv, probe>>

NextFewer ==
    \/ RunBegin
    \/ ResetGroup
    \/ NextBatch
    \/ ProcessSentence
    \/ EndIndex
    \/ ExportTop100
    \/ ExportRejected
    \/ WriteChunks
    \/ Close
    \/ NextRunFewer

\* a run, and another on the corpus without its last entry
FewerSpec == Init /\ [][NextFewer]_vars

\* C28: after run() has completed, the output directory of each folder of
\* the run holds exactly the part files 1..written of that run: no part file
\* of a higher index written by an earlier run is left in place.
C28OnlyPartsOfThisRun ==
    pc = "done" =>
        \A g \in AllFolders :
            DocumentsWritten(g) =>
                /\ {p.idx : p \in PartFiles(g)} = 1..folder_stats[g].written
                /\ PartFiles(g) = {docs[g][k] : k \in 1..Len(docs[g])}

----------------------------------------------------------------------------
(* BEGIN and COMMIT on the connection *)

\* the statements are executed in order on a connection on which a
\* transaction is (or is not) open: no BEGIN inside a transaction, no COMMIT
\* outside one, no read of the ordered stream and no close inside one
RECURSIVE Alternates(_, _)
Alternates(open, stmts) ==
    IF stmts = <<>> THEN TRUE
    ELSE /\ CASE Head(stmts) = "BEGIN" -> ~open
              [] Head(stmts) = "COMMIT" -> open
              [] Head(stmts) \in {"STREAM", "CLOSE"} -> ~open
              [] OTHER -> TRUE
         /\ Alternates(TxnAfter(open, <<Head(stmts)>>), Tail(stmts))

\* between the steps of run() a transaction is open during the indexing of
\* a folder and at no other time
OpenOnlyWhileIndexing == in_txn <=> pc = "index"

\* C29: on the store connection BEGIN and COMMIT strictly alternate: no
\* BEGIN is issued while a transaction is open and no COMMIT without one;
\* no transaction is open when the ordered stream of a folder is read or
\* when the connection is closed.
C29BeginCommitAlternate ==
    /\ []OpenOnlyWhileIndexing
    /\ [][Alternates(in_txn, sql') /\ in_txn' = TxnAfter(in_txn, sql')]_vars

\* the connection is closed after a run in which a folder of three accepted
\* sentences was committed after the second and once more at the end
C29Witness ==
    /\ pc = "done"
    /\ sql = <<"CLOSE">>
    /\ ~in_txn
    /\ cfg.commit_every = 2
    /\ \E g \in AllFolders : Len(accepted[g]) = 3 /\ DocumentsWritten(g)

----------------------------------------------------------------------------
(* The statistics run() returns *)

\* the sum of cnt over a set of rows
RECURSIVE SumCnt(_)
SumCnt(rows) ==
    IF rows = {} THEN 0
    ELSE LET row == CHOOSE x \in rows : TRUE
         IN  row.cnt + SumCnt(rows \ {row})

\* C30: in the statistics of a folder input_sentences is the sum of the
\* occurrence counts of the folder's rows, unique_sentences is the number of
\* its rows, so unique_sentences <= input_sentences, and written is the
\* number of documents written for the folder.
C30Statistics ==
    \A g \in AllFolders :
        DocumentsWritten(g) =>
            /\ folder_stats[g].input_sentences = SumCnt(Rows(store, g))
            /\ folder_stats[g].unique_sentences = Cardinality(Rows(store, g))
            /\ folder_stats[g].unique_sentences
                  <= folder_stats[g].input_sentences
            /\ folder_stats[g].written = Len(docs[g])
            /\ folder_stats[g].written
                  = Cardinality({p \in PartFiles(g) :
                        \E k \in 1..Len(docs[g]) : docs[g][k] = p})

\* run() returns, for a folder with four accepted sentences of which two
\* share a normal form, 4, 3 and the number of its documents
C30Witness ==
    /\ pc = "done"
    /\ \E g \in AllFolders :
          /\ DocumentsWritten(g)
          /\ folder_stats[g].input_sentences = 4
          /\ folder_stats[g].unique_sentences = 3
          /\ folder_stats[g].written = 2

====
